---------------------------- MODULE Spec2Model ----------------------------
(***************************************************************************)
(* The agentic loop of temporal-gemini-agent: AgentGeminiWorkflow.run      *)
(* (workflows/agent.py) with its two activities, gemini_responses.create   *)
(* and tool_invoker.invoke_tool, executed through workflow.execute_activity*)
(* of the durable scheduler.                                               *)
(*                                                                         *)
(* Python values are modelled as follows.  A dict is a record (a function  *)
(* on its keys), the empty dict is <<>>, `k in d` is k \in DOMAIN d.  A    *)
(* list is a sequence.  A provider object attribute that is None or missing*)
(* is a field that is absent from the record.                              *)
(***************************************************************************)
EXTENDS Integers, Sequences, FiniteSets, TLC

VARIABLES
    input,        \* the argument of run(): recorded when the workflow is started
    input_list,   \* run's local input_list: the conversation log
    item,         \* run's local item = result.output[0] (<<>> while unset)
    pc,           \* where run is: NotStarted, AwaitingCompletion, AwaitingTool,
                  \*   Terminated, Failed
    returned,     \* the value run returned (meaningful when pc = "Terminated")
    failure,      \* the error that failed the run (meaningful when pc = "Failed")
    cursor,       \* number of recorded activity results run has consumed so far
    events,       \* scheduler: the recorded activity results, in order
    pending,      \* scheduler: the activity scheduled and not yet closed
    trace,        \* observation: every execution (attempt) of an activity body
    handlerCalls, \* observation: number of invocations of a tool callable
    replayed      \* observation: a worker crash has made the scheduler replay run

vars == << input, input_list, item, pc, returned, failure, cursor, events,
           pending, trace, handlerCalls, replayed >>

-----------------------------------------------------------------------------
(* Bounds of the model *)

MaxIterations == 2   \* completion steps one run may schedule
MaxRetries == 2      \* re-attempts of failed activities the scheduler makes in one run
MaxLogLen == 3       \* length of the logs the codec is applied to

-----------------------------------------------------------------------------
(* Inputs *)

Queries == {"What is my IP?"}

NoArgs == <<>>

FcPart(n, a) == [function_call |-> [name |-> n, args |-> a]]
TextPart(t) == [text |-> t]

\* content.parts of the provider responses generate_content may return
ProviderPartLists ==
    { << TextPart("Hi"), TextPart("!") >>,
      << FcPart("get_ip", NoArgs) >>,
      << FcPart("add", [a |-> 1]) >>,
      << FcPart("add", [b |-> 1]) >>,
      << FcPart("nope", NoArgs) >>,
      << TextPart("Hi"), FcPart("get_ip", NoArgs) >>,
      << FcPart("get_ip", NoArgs), TextPart("!") >>,
      << FcPart("add", [a |-> 1]), FcPart("get_ip", NoArgs) >>,
      << [function_call |-> [name |-> "get_ip", args |-> NoArgs], text |-> "Hi"] >>,
      << TextPart("") >>,
      << <<>> >>,
      << >> }

\* a candidate whose content is None has no content field
ProviderResponses ==
    { [candidates |-> << [content |-> [parts |-> ps]] >>] : ps \in ProviderPartLists }
      \cup { [candidates |-> << >>], [candidates |-> << <<>> >>] }

\* what a tool callable may return
ToolOutputs == {"19.199.198.200"}

-----------------------------------------------------------------------------
(* gemini_agent.tools: the registry of callables.  A handler is represented *)
(* by the shape of its signature.                                           *)

Registry ==
    [n \in {"get_ip", "add"} |-> IF n = "get_ip" THEN "no_params" ELSE "schema"]

get_handler(tool_name) ==
    IF tool_name \in DOMAIN Registry THEN Registry[tool_name] ELSE "None"

\* the callables that are coroutine functions (async def)
CoroutineHandlers == {"get_ip"}

\* the fields the schema type of a "schema" handler requires
SchemaFields == {"a"}

-----------------------------------------------------------------------------
(* workflows/agent.py: build_history_from_input *)

ContinuePrompt == "Please continue and provide your response based on the tool results."

\* variant: the arguments of a tool call are left out of its history entry
HistoryEntryWithoutArgs(it) ==
    IF it.type = "message"
    THEN << [role |-> it.role, parts |-> << [text |-> it.content] >>] >>
    ELSE IF it.type = "function_call"
    THEN << [role |-> "model",
             parts |-> << [function_call |->
                             [name |-> it.name, args |-> << >>]] >>] >>
    ELSE IF it.type = "function_call_output"
    THEN << [role |-> "user",
             parts |-> << [function_response |->
                             [name |-> it.call_id,
                              response |-> [result |-> it.output]]] >>] >>
    ELSE << >>

HistoryEntry(it) ==
    IF it.type = "message"
    THEN << [role |-> it.role, parts |-> << [text |-> it.content] >>] >>
    ELSE IF it.type = "function_call"
    THEN << [role |-> "model",
             parts |-> << [function_call |->
                             [name |-> it.name, args |-> it.arguments]] >>] >>
    ELSE IF it.type = "function_call_output"
    THEN << [role |-> "user",
             parts |-> << [function_response |->
                             [name |-> it.call_id,
                              response |-> [result |-> it.output]]] >>] >>
    ELSE << >>

RECURSIVE HistoryOf(_)
HistoryOf(items) ==
    IF items = << >> THEN << >>
    ELSE HistoryEntry(Head(items)) \o HistoryOf(Tail(items))

\* variant: the last item is kept out of history whatever its type
build_history_without_last(il) ==
    LET last_item == il[Len(il)]
        is_continuing_after_tool == last_item.type = "function_call_output"
    IN  [history |-> HistoryOf(SubSeq(il, 1, Len(il) - 1)),
         prompt  |-> IF is_continuing_after_tool THEN ContinuePrompt
                     ELSE IF "content" \in DOMAIN last_item
                          THEN last_item.content ELSE ""]

\* variant: after a tool result only the last call and its result are kept
build_history_recent_only(il) ==
    LET last_item == il[Len(il)]
        is_continuing_after_tool == last_item.type = "function_call_output"
        items_for_history ==
            IF is_continuing_after_tool THEN SubSeq(il, Len(il) - 1, Len(il))
            ELSE SubSeq(il, 1, Len(il) - 1)
    IN  [history |-> HistoryOf(items_for_history),
         prompt  |-> IF is_continuing_after_tool THEN ContinuePrompt
                     ELSE IF "content" \in DOMAIN last_item
                          THEN last_item.content ELSE ""]

build_history_from_input(il) ==
    LET last_item == il[Len(il)]
        is_continuing_after_tool == last_item.type = "function_call_output"
        items_for_history ==
            IF is_continuing_after_tool THEN il ELSE SubSeq(il, 1, Len(il) - 1)
    IN  [history |-> HistoryOf(items_for_history),
         prompt  |-> IF is_continuing_after_tool THEN ContinuePrompt
                     ELSE IF "content" \in DOMAIN last_item
                          THEN last_item.content ELSE ""]

-----------------------------------------------------------------------------
(* workflows/agent.py: parse_gemini_response *)

FunctionCallOutput(fc) ==
    [type |-> "function_call", name |-> fc.name, call_id |-> fc.name,
     arguments |-> fc.args]

MessageOutput(text) == [type |-> "message", content |-> text]

RECURSIVE ParseFunctionCalls(_)
ParseFunctionCalls(parts) ==
    IF parts = << >> THEN << >>
    ELSE (IF "function_call" \in DOMAIN Head(parts)
          THEN << FunctionCallOutput(Head(parts).function_call) >>
          ELSE << >>) \o ParseFunctionCalls(Tail(parts))

\* variant: output_text = part["text"] in place of +=
RECURSIVE ParseTextLast(_)
ParseTextLast(parts) ==
    IF parts = << >> THEN ""
    ELSE IF ParseTextLast(Tail(parts)) # "" THEN ParseTextLast(Tail(parts))
    ELSE IF "function_call" \in DOMAIN Head(parts) THEN ""
    ELSE IF "text" \in DOMAIN Head(parts) THEN Head(parts).text
    ELSE ""

RECURSIVE ParseText(_)
ParseText(parts) ==
    IF parts = << >> THEN ""
    ELSE (IF "function_call" \in DOMAIN Head(parts) THEN ""
          ELSE IF "text" \in DOMAIN Head(parts) THEN Head(parts).text
          ELSE "") \o ParseText(Tail(parts))

\* variant: the text of a response is added as a message ahead of its calls
parse_text_first(raw_response) ==
    LET parts == IF "parts" \in DOMAIN raw_response
                 THEN raw_response.parts ELSE << >>
        calls == ParseFunctionCalls(parts)
        output_text == ParseText(parts)
    IN  [output |-> IF calls = << >> \/ output_text # ""
                    THEN << MessageOutput(output_text) >> \o calls
                    ELSE calls,
         output_text |-> output_text]

parse_gemini_response(raw_response) ==
    LET parts == IF "parts" \in DOMAIN raw_response
                 THEN raw_response.parts ELSE << >>
        calls == ParseFunctionCalls(parts)
        output_text == ParseText(parts)
    IN  [output |-> IF calls = << >> THEN << MessageOutput(output_text) >>
                    ELSE calls,
         output_text |-> output_text]

-----------------------------------------------------------------------------
(* activities/gemini_responses.py: serialize_response and create *)

SerializePart(part) ==
    IF "function_call" \in DOMAIN part
    THEN [function_call |-> [name |-> part.function_call.name,
                             args |-> part.function_call.args]]
    ELSE IF "text" \in DOMAIN part /\ part.text # ""
    THEN [text |-> part.text]
    ELSE << >>

\* response.candidates[0].content.parts raises AttributeError when content is None
SerializeRaises(response) ==
    /\ response.candidates # << >>
    /\ "content" \notin DOMAIN response.candidates[1]

serialize_response(response) ==
    LET ps == IF response.candidates # << >>
              THEN response.candidates[1].content.parts ELSE << >>
    IN  [parts |-> [i \in 1..Len(ps) |-> SerializePart(ps[i])]]

-----------------------------------------------------------------------------
(* The durable scheduler behind workflow.execute_activity *)

NoActivity == [activity |-> "none"]

CreateActivity(hp) ==
    [activity |-> "create",
     request  |-> [history |-> hp.history, prompt |-> hp.prompt],
     attempt  |-> 1]

InvokeToolActivity(tool_args) ==
    [activity |-> "invoke_tool", tool_args |-> tool_args, attempt |-> 1]

Completed(activity, result) ==
    [activity |-> activity, status |-> "completed", result |-> result]

Failed(activity, error) ==
    [activity |-> activity, status |-> "failed", error |-> error]

\* variant: the activity is started at every call, recorded result or not
ExecuteActivityAgain(n, act) == act

\* workflow.execute_activity as run's (n+1)-th scheduler call: a result that is
\* already recorded is reused and an activity that is already scheduled is not
\* scheduled again; otherwise the activity is scheduled.
ExecuteActivity(n, act) ==
    IF Len(events) > n \/ pending.activity # "none" THEN pending ELSE act

\* variant: the result of the activity is taken without awaiting it
AwaitSkipped(n) ==
    [ready |-> TRUE,
     event |-> IF Len(events) > n THEN events[n + 1]
               ELSE Completed(pending.activity,
                              IF pending.activity = "invoke_tool" THEN "coroutine"
                              ELSE [parts |-> << FcPart("get_ip", NoArgs) >>])]

\* `await workflow.execute_activity(...)` as run's (n+1)-th scheduler call: run
\* goes on only when the result of that step is recorded, and with that result
Await(n) ==
    [ready |-> Len(events) > n,
     event |-> IF Len(events) > n THEN events[n + 1] ELSE << >>]

\* an attempt of the pending activity returned `result`
ActivityCompletes(result) ==
    /\ events' = Append(events, Completed(pending.activity, result))
    /\ pending' = NoActivity

\* activities/gemini_responses.py, create: the contents sent to the provider
\* are the history followed by the prompt as a user message
Contents(request) ==
    request.history \o << [role |-> "user",
                           parts |-> << [text |-> request.prompt] >>] >>

\* one execution of the body of the pending activity: the step of the run it
\* belongs to, its argument, what it sent to the provider, whether it
\* returned, and how many times it invoked a tool callable
Executed(ok, called) ==
    [activity |-> pending.activity,
     step     |-> Len(events) + 1,
     arg      |-> IF pending.activity = "create" THEN pending.request
                  ELSE pending.tool_args,
     sent     |-> IF pending.activity = "create" THEN Contents(pending.request)
                  ELSE << >>,
     ok       |-> ok,
     called   |-> called]

\* the attempts that have failed so far
FailedAttempts == Cardinality({i \in 1..Len(trace) : ~trace[i].ok})

\* an attempt of the pending activity raised `error`: the scheduler re-attempts
\* it, unless the error is non-retryable, or gives up and records the failure
ActivityFails(error, non_retryable) ==
    \/ /\ ~non_retryable
       /\ FailedAttempts < MaxRetries
       /\ pending' = [pending EXCEPT !.attempt = @ + 1]
       /\ UNCHANGED events
    \/ /\ events' = Append(events, Failed(pending.activity, error))
       /\ pending' = NoActivity


-----------------------------------------------------------------------------
(* activities/gemini_responses.py: one attempt of create *)

CreateAttempt ==
    /\ pending.activity = "create"
    /\ \/ \E response \in ProviderResponses :
            IF SerializeRaises(response)
            THEN /\ ActivityFails("AttributeError", FALSE)
                 /\ trace' = Append(trace, Executed(FALSE, 0))
            ELSE /\ ActivityCompletes(serialize_response(response))
                 /\ trace' = Append(trace, Executed(TRUE, 0))
       \/ \* generate_content raises, or the step times out
          /\ ActivityFails("ProviderError", FALSE)
          /\ trace' = Append(trace, Executed(FALSE, 0))
    /\ UNCHANGED << input, input_list, item, pc, returned, failure, cursor,
                    handlerCalls, replayed >>

-----------------------------------------------------------------------------
(* activities/tool_invoker.py: one attempt of invoke_tool *)

\* variant: the arguments are handed to the callable without validation
CoercionSkipped(handler, args) == FALSE

\* ann(**tool_args.args) raises a validation error
CoercionFails(handler, args) ==
    /\ handler = "schema"
    /\ ~ (SchemaFields \subseteq DOMAIN args)

\* variant: the coroutine of a suspending callable is returned unawaited
CallHandlerUnawaited(tool_name, value) ==
    IF tool_name \in CoroutineHandlers THEN "coroutine" ELSE value

\* result = await handler(*call_args) if inspect.iscoroutinefunction(handler)
\* else handler(*call_args): the value the callable produces once it has run
CallHandler(tool_name, value) == value

\* the non_retryable flag of the ApplicationError raised for an unknown tool
ToolNotFoundRetryable == FALSE

ToolNotFoundNonRetryable == TRUE

InvokeToolAttempt ==
    /\ pending.activity = "invoke_tool"
    /\ LET tool_args == pending.tool_args
           handler == get_handler(tool_args.tool_name)
       IN  IF handler = "None"
           THEN /\ ActivityFails("ToolNotFoundError", ToolNotFoundNonRetryable)
                /\ trace' = Append(trace, Executed(FALSE, 0))
                /\ UNCHANGED handlerCalls
           ELSE IF CoercionFails(handler, tool_args.args)
           THEN /\ ActivityFails("ValidationError", FALSE)
                /\ trace' = Append(trace, Executed(FALSE, 0))
                /\ UNCHANGED handlerCalls
           ELSE /\ handlerCalls' = handlerCalls + 1
                /\ \/ \E result \in ToolOutputs :
                        /\ ActivityCompletes(CallHandler(tool_args.tool_name, result))
                        /\ trace' = Append(trace, Executed(TRUE, 1))
                   \/ \* the callable raises
                      /\ ActivityFails("ToolExecutionFailure", FALSE)
                      /\ trace' = Append(trace, Executed(FALSE, 1))
    /\ UNCHANGED << input, input_list, item, pc, returned, failure, cursor,
                    replayed >>

-----------------------------------------------------------------------------
(* workflows/agent.py: AgentGeminiWorkflow.run, one action per stretch of   *)
(* code between two awaits                                                  *)

InitialInputList(query) ==
    << [type |-> "message", role |-> "user", content |-> query] >>

\* variant: the tool call is logged before its arguments are filled in
FunctionCallTurnWithoutArguments(it) ==
    [type |-> "function_call", name |-> it.name, call_id |-> it.call_id,
     arguments |-> << >>]

FunctionCallTurn(it) ==
    [type |-> "function_call", name |-> it.name, call_id |-> it.call_id,
     arguments |-> it.arguments]

\* variant: the dispatch carries the tool name but not the arguments
ToolArgumentsWithoutArgs(it) == [tool_name |-> it.name, args |-> << >>]

ToolArguments(it) == [tool_name |-> it.name, args |-> it.arguments]

\* variant: the tool result is keyed by the result instead of the call
ToolResultTurnKeyedByResult(it, tool_result) ==
    [type |-> "function_call_output", call_id |-> tool_result,
     output |-> tool_result]

ToolResultTurn(it, tool_result) ==
    [type |-> "function_call_output", call_id |-> it.call_id,
     output |-> tool_result]

IsFunctionCallOutput(it) == it.type = "function_call"

\* variant: item = result.output[-1]
LastOutputItem(result) == result.output[Len(result.output)]

\* item = result.output[0]
FirstOutputItem(result) == result.output[1]

\* variant: the new turn overwrites the last turn of the log
OverwriteLastTurn(il, turn) == [il EXCEPT ![Len(il)] = turn]

\* input_list.append(turn)
AppendTurn(il, turn) == Append(il, turn)

\* variant: the FinalAnswer branch appends the answer as a model message
FinalAnswerLogAppends(il, result) ==
    Append(il, [type |-> "message", role |-> "model",
                content |-> result.output_text])

\* the FinalAnswer branch returns and leaves input_list as it is
FinalAnswerLog(il, result) == il

\* variant: run catches the error of the activity and answers with a default
SwallowActivityError(ev) ==
    /\ pc' = "Terminated"
    /\ returned' = ""
    /\ UNCHANGED failure

\* the awaited activity failed: execute_activity raises in run, nothing catches
\* it, and the run fails with that error
RaiseActivityError(ev) ==
    /\ pc' = "Failed"
    /\ failure' = ev.error
    /\ UNCHANGED returned

\* run is entered (or re-entered by a replay) and reaches its first await
Start ==
    /\ pc = "NotStarted"
    /\ input_list' = InitialInputList(input)
    /\ pending' = ExecuteActivity(0,
                     CreateActivity(build_history_from_input(input_list')))
    /\ cursor' = 0
    /\ pc' = "AwaitingCompletion"
    /\ UNCHANGED << input, item, returned, failure, events, trace,
                    handlerCalls, replayed >>

\* the await of create ends: parse the response, then either
\* _handle_function_call up to its await, or return
ResumeAfterCompletion ==
    /\ pc = "AwaitingCompletion"
    /\ Await(cursor).ready
    /\ cursor' = cursor + 1
    /\ LET ev == Await(cursor).event
       IN  IF ev.status = "failed"
           THEN /\ RaiseActivityError(ev)
                /\ UNCHANGED << input_list, item, pending >>
           ELSE LET result == parse_gemini_response(ev.result)
                    it == FirstOutputItem(result)
                IN  IF IsFunctionCallOutput(it)
                    THEN /\ item' = it
                         /\ input_list' = AppendTurn(input_list, FunctionCallTurn(it))
                         /\ pending' = ExecuteActivity(cursor + 1,
                                          InvokeToolActivity(ToolArguments(it)))
                         /\ pc' = "AwaitingTool"
                         /\ UNCHANGED << returned, failure >>
                    ELSE /\ item' = it
                         /\ returned' = result.output_text
                         /\ pc' = "Terminated"
                         /\ input_list' = FinalAnswerLog(input_list, result)
                         /\ UNCHANGED << failure, pending >>
    /\ UNCHANGED << input, events, trace, handlerCalls, replayed >>

\* variant: run returns the tool result instead of looping
ResumeAfterToolReturns ==
    /\ pc = "AwaitingTool"
    /\ Await(cursor).ready
    /\ cursor' = cursor + 1
    /\ LET ev == Await(cursor).event
       IN  IF ev.status = "failed"
           THEN RaiseActivityError(ev)
           ELSE /\ returned' = ev.result
                /\ pc' = "Terminated"
                /\ UNCHANGED failure
    /\ UNCHANGED << input, input_list, item, events, pending, trace,
                    handlerCalls, replayed >>

\* the await of invoke_tool ends: append the tool result, loop, and reach
\* the await of the next create
ResumeAfterTool ==
    /\ pc = "AwaitingTool"
    /\ Await(cursor).ready
    /\ cursor + 1 < 2 * MaxIterations
    /\ cursor' = cursor + 1
    /\ LET ev == Await(cursor).event
       IN  IF ev.status = "failed"
           THEN /\ RaiseActivityError(ev)
                /\ UNCHANGED << input_list, pending >>
           ELSE /\ input_list' = AppendTurn(input_list,
                                              ToolResultTurn(item, ev.result))
                /\ pending' = ExecuteActivity(cursor + 1,
                                 CreateActivity(build_history_from_input(input_list')))
                /\ pc' = "AwaitingCompletion"
                /\ UNCHANGED << returned, failure >>
    /\ UNCHANGED << input, item, events, trace, handlerCalls,
                    replayed >>

\* the worker running run crashes: run's locals are lost and the scheduler
\* replays run from its start against the recorded results
Crash ==
    /\ pc \in {"AwaitingCompletion", "AwaitingTool"}
    /\ pc' = "NotStarted"
    /\ input_list' = << >>
    /\ item' = << >>
    /\ cursor' = 0
    /\ replayed' = TRUE
    /\ UNCHANGED << input, returned, failure, events, pending, trace,
                    handlerCalls >>

-----------------------------------------------------------------------------

Init ==
    /\ input \in Queries
    /\ input_list = << >>
    /\ item = << >>
    /\ pc = "NotStarted"
    /\ returned = ""
    /\ failure = ""
    /\ cursor = 0
    /\ events = << >>
    /\ pending = NoActivity
    /\ trace = << >>
    /\ handlerCalls = 0
    /\ replayed = FALSE

Next ==
    \/ Start
    \/ CreateAttempt
    \/ InvokeToolAttempt
    \/ ResumeAfterCompletion
    \/ ResumeAfterTool
    \/ Crash

Spec == Init /\ [][Next]_vars

\* an attempt of create that returns
CreateCompletes == CreateAttempt /\ trace'[Len(trace')].ok

\* an attempt of invoke_tool that returns
InvokeToolCompletes == InvokeToolAttempt /\ trace'[Len(trace')].ok

\* the runs in which no attempt of a step fails
NextAllComplete ==
    \/ Start
    \/ ResumeAfterCompletion
    \/ ResumeAfterTool
    \/ CreateCompletes
    \/ InvokeToolCompletes
    \/ Crash

\* the worker takes every workflow task and every activity task that is ready
SpecAllComplete ==
    /\ Init /\ [][NextAllComplete]_vars
    /\ WF_vars(Start)
    /\ WF_vars(ResumeAfterCompletion)
    /\ WF_vars(ResumeAfterTool)
    /\ WF_vars(CreateCompletes)
    /\ WF_vars(InvokeToolCompletes)

TypeOK ==
    /\ pc \in {"NotStarted", "AwaitingCompletion", "AwaitingTool",
               "Terminated", "Failed"}
    /\ cursor \in 0..Len(events)
    /\ pending.activity \in {"none", "create", "invoke_tool"}

-----------------------------------------------------------------------------
(* The history codec applied to arbitrary logs *)

CodecTurns ==
    { [type |-> "message", role |-> "user", content |-> "What is my IP?"],
      [type |-> "message", role |-> "user", content |-> "And yours?"],
      [type |-> "message", role |-> "model", content |-> "Hi!"],
      [type |-> "function_call", name |-> "get_ip", call_id |-> "get_ip",
       arguments |-> NoArgs],
      [type |-> "function_call", name |-> "add", call_id |-> "add",
       arguments |-> [a |-> 1]],
      [type |-> "function_call_output", call_id |-> "get_ip",
       output |-> "19.199.198.200"],
      [type |-> "function_call_output", call_id |-> "add", output |-> "3"] }

CodecLogs ==
    UNION { [1..n -> CodecTurns] : n \in 1..MaxLogLen }

InitCodec ==
    /\ input = ""
    /\ input_list \in CodecLogs
    /\ item = << >>
    /\ pc = "Codec"
    /\ returned = ""
    /\ failure = ""
    /\ cursor = 0
    /\ events = << >>
    /\ pending = NoActivity
    /\ trace = << >>
    /\ handlerCalls = 0
    /\ replayed = FALSE

\* the request run builds from the log at the top of its loop
Encode ==
    /\ pc = "Codec"
    /\ pending' = CreateActivity(build_history_from_input(input_list))
    /\ pc' = "Encoded"
    /\ UNCHANGED << input, input_list, item, returned, failure, cursor, events,
                    trace, handlerCalls, replayed >>

NextCodec == Encode

SpecCodec == InitCodec /\ [][NextCodec]_vars

-----------------------------------------------------------------------------
(* Vocabulary of the properties *)

IsOdd(n) == n % 2 = 1

Last(seq) == seq[Len(seq)]

NoStepFails == \A i \in 1..Len(trace) : trace[i].ok

Executions(activity) ==
    Cardinality({i \in 1..Len(trace) : trace[i].activity = activity})

HasFunctionCallPart(raw) ==
    \E i \in 1..Len(raw.parts) : "function_call" \in DOMAIN raw.parts[i]

FirstFunctionCall(raw) ==
    LET i == CHOOSE k \in 1..Len(raw.parts) :
                 /\ "function_call" \in DOMAIN raw.parts[k]
                 /\ \A m \in 1..(k - 1) : "function_call" \notin DOMAIN raw.parts[m]
    IN  raw.parts[i].function_call

IsTextPart(part) == DOMAIN part = {"text"}

TextOnly(raw) ==
    /\ raw.parts # << >>
    /\ \A i \in 1..Len(raw.parts) : IsTextPart(raw.parts[i])

RECURSIVE JoinText(_)
JoinText(parts) ==
    IF parts = << >> THEN "" ELSE Head(parts).text \o JoinText(Tail(parts))

\* the responses the completion service has returned, in order
CompletionResults ==
    LET done == SelectSeq(events, LAMBDA e : e.activity = "create"
                                             /\ e.status = "completed")
    IN  [i \in 1..Len(done) |-> done[i].result]

-----------------------------------------------------------------------------
(* C1.  In a run in which no step fails, completion calls and tool         *)
(* dispatches strictly alternate, starting with a completion call; and when *)
(* the run has returned, the completion service was invoked exactly k+1     *)
(* times and a tool dispatched exactly k times, where the first k responses *)
(* carried a function call and response k+1 was text only, and the run      *)
(* returned that text.                                                      *)

C1_AlternatingStepsThenText ==
    NoStepFails =>
        /\ \A i \in 1..Len(trace) :
              trace[i].activity = IF IsOdd(i) THEN "create" ELSE "invoke_tool"
        /\ pc = "Terminated" =>
              LET rs == CompletionResults
                  k == Len(rs) - 1
              IN  /\ k >= 0
                  /\ \A i \in 1..k : HasFunctionCallPart(rs[i])
                  /\ ~HasFunctionCallPart(rs[k + 1])
                  /\ Executions("create") = k + 1
                  /\ Executions("invoke_tool") = k
                  /\ TextOnly(rs[k + 1]) => returned = JoinText(rs[k + 1].parts)

\* scenario B: a function call, its dispatch, then the text
C1_Witness ==
    /\ pc = "Terminated"
    /\ NoStepFails
    /\ Executions("create") = 2
    /\ Executions("invoke_tool") = 1
    /\ returned = "Hi!"

(* C2.  When the first completion response has only text parts, the run    *)
(* returns the concatenation of those parts in order, after one invocation  *)
(* of the completion service and no tool dispatch.                          *)

C2_TextOnlyFirstResponse ==
    (/\ Len(events) >= 1
     /\ events[1].status = "completed"
     /\ TextOnly(events[1].result)
     /\ cursor >= 1)
    => /\ pc = "Terminated"
       /\ returned = JoinText(events[1].result.parts)
       /\ Len(events) = 1
       /\ pending = NoActivity
       /\ \A i \in 1..Len(trace) : trace[i].activity = "create"
       /\ Cardinality({i \in 1..Len(trace) : trace[i].ok}) = 1
       /\ handlerCalls = 0

C2_Witness ==
    /\ pc = "Terminated"
    /\ Len(trace) = 1
    /\ events[1].result.parts = << [text |-> "Hi"], [text |-> "!"] >>
    /\ returned = "Hi!"

(* C3.  A run ends either returned or failed, never both: it returns only   *)
(* when every step it awaited completed, and once it has awaited a step     *)
(* that failed it is failed with that step's error, no later step is        *)
(* scheduled, and it returns nothing.                                       *)

C3_FailureSurfaces ==
    /\ pc = "Terminated" =>
          /\ failure = ""
          /\ \A i \in 1..Len(events) : events[i].status = "completed"
    /\ pc = "Failed" =>
          /\ returned = ""
          /\ events[cursor].status = "failed"
          /\ failure = events[cursor].error
    /\ \A i \in 1..Len(events) :
          events[i].status = "failed" =>
             /\ i = Len(events)
             /\ pending = NoActivity
             /\ cursor >= i => pc = "Failed"

C3_Witness ==
    /\ pc = "Failed"
    /\ failure = "ToolExecutionFailure"
    /\ Len(trace) = 3
    /\ handlerCalls = 2

(* C4.  A dispatch of a tool name the registry does not resolve fails with  *)
(* ToolNotFoundError without invoking a callable; it is the last step of    *)
(* the run: it is not attempted again, no completion call follows it, the   *)
(* run does not return, and the log never holds a tool result for it.       *)

C4_ToolNotFoundIsTerminal ==
    /\ \A i \in 1..Len(trace) :
          (/\ trace[i].activity = "invoke_tool"
           /\ trace[i].arg.tool_name \notin DOMAIN Registry)
          => /\ ~trace[i].ok
             /\ trace[i].called = 0
             /\ i = Len(trace)
             /\ pending = NoActivity
             /\ Last(events) = Failed("invoke_tool", "ToolNotFoundError")
             /\ pc # "Terminated"
             /\ pc = "Failed" =>
                   /\ failure = "ToolNotFoundError"
                   /\ Last(input_list).type = "function_call"
                   /\ Last(input_list).name = trace[i].arg.tool_name
    /\ \A j \in 1..Len(input_list) :
          input_list[j].type = "function_call_output"
             => input_list[j].call_id \in DOMAIN Registry

C4_Witness ==
    /\ pc = "Failed"
    /\ failure = "ToolNotFoundError"
    /\ Last(trace).arg.tool_name = "nope"
    /\ handlerCalls = 0

(* C5 as claimed.  In the log every tool result directly follows the tool   *)
(* call with the same call identifier, and every tool call is directly      *)
(* followed by its tool result, or is the last turn while its dispatch is   *)
(* outstanding.                                                             *)

IsToolCall(turn) == turn.type = "function_call"

IsToolResult(turn) == turn.type = "function_call_output"

ResultFollowsItsCall(i) ==
    IsToolResult(input_list[i]) =>
        /\ i > 1
        /\ IsToolCall(input_list[i - 1])
        /\ input_list[i - 1].call_id = input_list[i].call_id

CallIsFollowedByItsResult(i) ==
    (IsToolCall(input_list[i]) /\ i < Len(input_list)) =>
        /\ IsToolResult(input_list[i + 1])
        /\ input_list[i + 1].call_id = input_list[i].call_id

C5_CallLastOnlyWhileDispatchOutstanding ==
    \A i \in 1..Len(input_list) :
        /\ ResultFollowsItsCall(i)
        /\ CallIsFollowedByItsResult(i)
        /\ (IsToolCall(input_list[i]) /\ i = Len(input_list))
              => pc = "AwaitingTool"

(* C5 as amended.  The same, except that a tool call also stays the last    *)
(* turn of the log when its dispatch failed and the run failed with it.     *)

C5_CallLastWhileOutstandingOrFailed ==
    \A i \in 1..Len(input_list) :
        /\ ResultFollowsItsCall(i)
        /\ CallIsFollowedByItsResult(i)
        /\ (IsToolCall(input_list[i]) /\ i = Len(input_list))
              => \/ pc = "AwaitingTool"
                 \/ /\ pc = "Failed"
                    /\ events[cursor].activity = "invoke_tool"
                    /\ events[cursor].status = "failed"

C5_Witness ==
    /\ Len(input_list) = 3
    /\ IsToolCall(input_list[2])
    /\ IsToolResult(input_list[3])
    /\ input_list[3].call_id = "add"

(* C6 as claimed.  When the run has returned, the last turn of the log is a *)
(* model message whose content is the returned text.                        *)

C6_LogEndsWithModelMessage ==
    pc = "Terminated" =>
        /\ Last(input_list).type = "message"
        /\ Last(input_list).role = "model"
        /\ Last(input_list).content = returned

(* C6 as amended.  On a final answer the loop returns the text of the       *)
(* response without appending a turn: when the run has returned, the log    *)
(* holds no model message, its last turn is the initial user message or a   *)
(* tool result, and the returned text is the text of the last response.     *)

RECURSIVE ResponseText(_)
ResponseText(parts) ==
    IF parts = << >> THEN ""
    ELSE (IF "text" \in DOMAIN Head(parts) THEN Head(parts).text ELSE "")
         \o ResponseText(Tail(parts))

C6_ReturnsTextWithoutAppending ==
    pc = "Terminated" =>
        /\ returned = ResponseText(events[cursor].result.parts)
        /\ Len(input_list) = cursor
        /\ \A i \in 1..Len(input_list) :
              input_list[i].type = "message" =>
                 (i = 1 /\ input_list[i].role = "user")
        /\ \/ Len(input_list) = 1
           \/ IsToolResult(Last(input_list))

C6_Witness ==
    /\ pc = "Terminated"
    /\ returned = "Hi!"
    /\ Len(input_list) = 3
    /\ IsToolResult(Last(input_list))

(* C7.  A completion response without parts, or whose parts carry neither   *)
(* text nor a function call, fails the run that interprets it; the run      *)
(* never returns on it.                                                     *)

Malformed(raw) == \A i \in 1..Len(raw.parts) : DOMAIN raw.parts[i] = {}

C7_MalformedResponseFailsRun ==
    \A j \in 1..cursor :
        (/\ events[j].activity = "create"
         /\ events[j].status = "completed"
         /\ Malformed(events[j].result))
        => pc = "Failed"

(* C8.  Whenever the run has interpreted a response with a function-call    *)
(* part, wherever its text parts sit, it did not return on that response:   *)
(* it appended the tool call of the first function-call part to the log and *)
(* dispatched that tool.                                                    *)

C8_FunctionCallTakesPrecedence ==
    \A j \in 1..cursor :
        (/\ events[j].activity = "create"
         /\ events[j].status = "completed"
         /\ HasFunctionCallPart(events[j].result))
        => LET fc == FirstFunctionCall(events[j].result)
           IN  /\ ~(pc = "Terminated" /\ cursor = j)
               /\ Len(input_list) >= j + 1
               /\ IsToolCall(input_list[j + 1])
               /\ input_list[j + 1].name = fc.name
               /\ input_list[j + 1].arguments = fc.args
               /\ \/ /\ Len(events) > j
                     /\ events[j + 1].activity = "invoke_tool"
                  \/ /\ Len(events) = j
                     /\ pending.activity = "invoke_tool"
                     /\ pending.tool_args = [tool_name |-> fc.name, args |-> fc.args]

\* text before the function call
C8_Witness ==
    /\ cursor = 1
    /\ pc = "AwaitingTool"
    /\ events[1].result.parts
          = << [text |-> "Hi"],
               [function_call |-> [name |-> "get_ip", args |-> NoArgs]] >>
    /\ pending.activity = "invoke_tool"

\* text after the function call
C8_WitnessTextAfter ==
    /\ cursor = 1
    /\ pc = "AwaitingTool"
    /\ events[1].result.parts
          = << [function_call |-> [name |-> "get_ip", args |-> NoArgs]],
               [text |-> "!"] >>

(* C9.  (History codec, over all logs of up to MaxLogLen turns.)  If the    *)
(* last turn of the log is a tool result, every turn, that one included, is *)
(* mapped in order into the history and the prompt is the fixed             *)
(* continuation string; if the last turn is a user message with content c,  *)
(* every turn but the last is mapped in order into the history and the      *)
(* prompt is c.                                                             *)

EncodedTurn(turn) ==
    CASE turn.type = "message" ->
            [role |-> turn.role, parts |-> << [text |-> turn.content] >>]
      [] turn.type = "function_call" ->
            [role |-> "model",
             parts |-> << [function_call |->
                             [name |-> turn.name, args |-> turn.arguments]] >>]
      [] turn.type = "function_call_output" ->
            [role |-> "user",
             parts |-> << [function_response |->
                             [name |-> turn.call_id,
                              response |-> [result |-> turn.output]]] >>]

IsUserMessage(turn) == turn.type = "message" /\ turn.role = "user"

C9_FramingByLastTurn ==
    pc = "Encoded" =>
        LET request == pending.request
            n == Len(input_list)
        IN  /\ IsToolResult(Last(input_list)) =>
                  /\ request.prompt =
                       "Please continue and provide your response based on the tool results."
                  /\ Len(request.history) = n
                  /\ \A i \in 1..n : request.history[i] = EncodedTurn(input_list[i])
            /\ IsUserMessage(Last(input_list)) =>
                  /\ request.prompt = Last(input_list).content
                  /\ Len(request.history) = n - 1
                  /\ \A i \in 1..(n - 1) :
                        request.history[i] = EncodedTurn(input_list[i])

C9_Witness ==
    /\ pc = "Encoded"
    /\ Len(input_list) = 3
    /\ IsUserMessage(input_list[1])
    /\ IsToolCall(input_list[2])
    /\ IsToolResult(input_list[3])
    /\ Len(pending.request.history) = 3

C9_WitnessUserMessage ==
    /\ pc = "Encoded"
    /\ Len(input_list) = 3
    /\ IsToolResult(input_list[2])
    /\ IsUserMessage(input_list[3])
    /\ pending.request.prompt = "And yours?"
    /\ Len(pending.request.history) = 2

(* C10.  Through crashes and replays every step is recorded once, in the    *)
(* order of the loop (completion call, tool dispatch, completion call, ...),*)
(* and a step that has completed is not executed again: the successful      *)
(* executions are exactly the recorded completed steps, only the step after *)
(* the last recorded one is ever scheduled, and the log run holds after     *)
(* consuming c recorded results is the log those c results determine.       *)

StepKind(j) == IF IsOdd(j) THEN "create" ELSE "invoke_tool"

RECURSIVE LogAfter(_)
LogAfter(c) ==
    IF c = 0
    THEN << [type |-> "message", role |-> "user", content |-> input] >>
    ELSE LET prev == LogAfter(c - 1)
             ev == events[c]
         IN  IF ev.status = "failed" THEN prev
             ELSE IF ev.activity = "invoke_tool"
             THEN Append(prev, [type |-> "function_call_output",
                                call_id |-> Last(prev).call_id,
                                output |-> ev.result])
             ELSE IF HasFunctionCallPart(ev.result)
             THEN LET fc == FirstFunctionCall(ev.result)
                  IN  Append(prev, [type |-> "function_call", name |-> fc.name,
                                    call_id |-> fc.name, arguments |-> fc.args])
             ELSE prev

SuccessfulExecutions == SelectSeq(trace, LAMBDA e : e.ok)

CompletedSteps == SelectSeq(events, LAMBDA e : e.status = "completed")

C10_CompletedStepsAreNotReExecuted ==
    /\ \A j \in 1..Len(events) : events[j].activity = StepKind(j)
    /\ Len(SuccessfulExecutions) = Len(CompletedSteps)
    /\ \A j \in 1..Len(CompletedSteps) :
          SuccessfulExecutions[j].activity = CompletedSteps[j].activity
    /\ pending.activity # "none" => pending.activity = StepKind(Len(events) + 1)
    /\ pc # "NotStarted" => input_list = LogAfter(cursor)
    /\ NoStepFails => Len(trace) = Len(events)

\* a replay in progress in scenario B: the replayed run has consumed the first
\* recorded result and two more recorded results are there to be reused
C10_Witness ==
    /\ replayed
    /\ NoStepFails
    /\ pc = "AwaitingTool"
    /\ cursor = 1
    /\ Len(events) = 3
    /\ Len(trace) = 3

(* C11.  At most one scheduler-mediated step of a run is outstanding: run   *)
(* has issued at most one step more than the scheduler has recorded, the    *)
(* one step in flight is the kind run is waiting for, the executions of a   *)
(* step never come after an execution of a later step, and a step is issued *)
(* only when the previous step has completed and its result is the last     *)
(* turn of the log.                                                         *)

Awaiting == pc \in {"AwaitingCompletion", "AwaitingTool"}

\* the steps run has issued since it (re)started
StepsIssued == IF Awaiting THEN cursor + 1 ELSE cursor

C11_OneStepOutstanding ==
    /\ StepsIssued <= Len(events) + 1
    /\ (Awaiting /\ cursor = Len(events)) =>
          pending.activity = IF pc = "AwaitingCompletion" THEN "create"
                             ELSE "invoke_tool"
    /\ pending # NoActivity =>
          pending.activity = IF IsOdd(Len(events) + 1) THEN "create"
                             ELSE "invoke_tool"
    /\ \A i \in 1..Len(trace) :
          /\ trace[i].step <= Len(events) + 1
          /\ trace[i].step = Len(events) + 1 => pending # NoActivity
          /\ \A j \in 1..(i - 1) : trace[j].step <= trace[i].step
    /\ (Awaiting /\ cursor > 0) =>
          /\ events[cursor].status = "completed"
          /\ Len(input_list) = cursor + 1
          /\ pc = "AwaitingCompletion" =>
                /\ IsToolResult(Last(input_list))
                /\ Last(input_list).output = events[cursor].result
          /\ pc = "AwaitingTool" =>
                /\ IsToolCall(Last(input_list))
                /\ Last(input_list).name
                      = FirstFunctionCall(events[cursor].result).name

\* the second completion call is in flight, after the first tool result
C11_Witness ==
    /\ pc = "AwaitingCompletion"
    /\ cursor = 2
    /\ Len(events) = 2
    /\ pending.activity = "create"
    /\ Len(trace) >= 3

(* C12.  The log of a run is append-only: every step of a live run leaves   *)
(* the previous log as a prefix of the new log and adds at most one turn,   *)
(* and building a completion request from the log leaves the log as it was: *)
(* the request issued is the encoding of the log the step ends with.        *)

IsPrefix(a, b) == Len(a) <= Len(b) /\ SubSeq(b, 1, Len(a)) = a

C12_LogIsAppendOnly ==
    [][/\ (pc # "NotStarted" /\ pc' # "NotStarted") =>
             /\ IsPrefix(input_list, input_list')
             /\ Len(input_list') <= Len(input_list) + 1
       /\ (pc' = "AwaitingCompletion" /\ cursor' = Len(events')
           /\ (pc # pc' \/ cursor # cursor')) =>
             /\ pending'.activity = "create"
             /\ pending'.request = build_history_from_input(input_list')
       /\ (pc = "NotStarted" /\ pc' # "NotStarted") =>
             input_list' = InitialInputList(input')]_vars

\* the log has grown to the query, a tool call and its result, and has been
\* encoded for the second completion request
C12_Witness ==
    /\ Len(input_list) = 3
    /\ pc = "AwaitingCompletion"
    /\ pending.activity = "create"
    /\ Len(pending.request.history) = 3
    /\ input_list[1] = InitialInputList(input)[1]

(* C13.  An execution of invoke_tool for a registered tool whose parameter  *)
(* is a schema type, with arguments the schema does not accept, fails       *)
(* before the callable is invoked (no invocation is counted for it); the    *)
(* failure is retryable: while retries are left the scheduler can attempt   *)
(* the same dispatch again, and when it gives up the step is recorded as    *)
(* failed with the validation error.                                        *)

NotCoercible(tool_args) ==
    /\ get_handler(tool_args.tool_name) = "schema"
    /\ ~ (SchemaFields \subseteq DOMAIN tool_args.args)

HandlerInvocations ==
    Cardinality({i \in 1..Len(trace) : trace[i].called = 1})

C13_ValidationFailsBeforeTheCall ==
    /\ \A i \in 1..Len(trace) :
          (trace[i].activity = "invoke_tool" /\ NotCoercible(trace[i].arg)) =>
             /\ ~trace[i].ok
             /\ trace[i].called = 0
             /\ (i = Len(trace) /\ pending = NoActivity) =>
                   Last(events) = Failed("invoke_tool", "ValidationError")
    /\ handlerCalls = HandlerInvocations
    /\ (/\ pending.activity = "invoke_tool"
        /\ NotCoercible(pending.tool_args)
        /\ FailedAttempts < MaxRetries) =>
          ENABLED (/\ InvokeToolAttempt
                   /\ pending' = [pending EXCEPT !.attempt = @ + 1]
                   /\ handlerCalls' = handlerCalls)

\* the dispatch of add without its field failed validation and was attempted
\* again, and no callable has run
C13_Witness ==
    /\ Len(trace) = 3
    /\ trace[2].activity = "invoke_tool"
    /\ NotCoercible(trace[2].arg)
    /\ trace[3].step = trace[2].step
    /\ trace[3].activity = "invoke_tool"
    /\ ~trace[3].ok
    /\ handlerCalls = 0

(* C14.  A function-call part {name n, arguments a} of a completion         *)
(* response survives interpretation, logging and encoding: in every later   *)
(* completion request of the run the history holds, at the place of that    *)
(* response, a model-role entry whose function call has name n and          *)
(* arguments a, directly followed by a user-role function response named n  *)
(* that holds the value the dispatch returned.                              *)

ModelFunctionCall(fc) ==
    [role |-> "model",
     parts |-> << [function_call |-> [name |-> fc.name, args |-> fc.args]] >>]

UserFunctionResponse(name, value) ==
    [role |-> "user",
     parts |-> << [function_response |->
                     [name |-> name, response |-> [result |-> value]]] >>]

\* the completion steps whose function call has been dispatched and answered
\* before step n
AnsweredCalls(n) ==
    {j \in 1..(n - 2) : IsOdd(j) /\ events[j + 1].status = "completed"}

C14_FunctionCallRoundTrip ==
    pending.activity = "create" =>
        LET h == pending.request.history
        IN  /\ Len(h) = IF events = << >> THEN 0 ELSE Len(events) + 1
            /\ \A j \in AnsweredCalls(Len(events) + 1) :
                  LET fc == FirstFunctionCall(events[j].result)
                  IN  /\ h[j + 1] = ModelFunctionCall(fc)
                      /\ h[j + 2] = UserFunctionResponse(fc.name,
                                                         events[j + 1].result)

\* the request after add({a: 1}) was answered: the call and its arguments,
\* then its result, are in the history
C14_Witness ==
    /\ pending.activity = "create"
    /\ Len(pending.request.history) = 3
    /\ pending.request.history[2].parts[1].function_call
          = [name |-> "add", args |-> [a |-> 1]]
    /\ pending.request.history[3].parts[1].function_response.name = "add"

(* C15.  When a completion response holds several function-call parts,     *)
(* only the first in part order is acted on: the one turn appended for that *)
(* response is the tool call of the first part, the one step that follows   *)
(* is a dispatch of that tool with those arguments (every attempt of it),   *)
(* the turn after it is the result of that call, and the log holds exactly  *)
(* one tool call per function-calling response the run has taken.           *)

FunctionCallCount(raw) ==
    Cardinality({i \in 1..Len(raw.parts) : "function_call" \in DOMAIN raw.parts[i]})

SeveralFunctionCalls(j) ==
    /\ events[j].activity = "create"
    /\ events[j].status = "completed"
    /\ FunctionCallCount(events[j].result) > 1

ToolCallTurns ==
    Cardinality({i \in 1..Len(input_list) : IsToolCall(input_list[i])})

ResponsesWithCallTaken ==
    Cardinality({j \in 1..cursor : /\ j <= Len(events)
                                    /\ events[j].activity = "create"
                                    /\ events[j].status = "completed"
                                    /\ HasFunctionCallPart(events[j].result)})

C15_OnlyFirstFunctionCall ==
    /\ \A j \in 1..Len(events) :
          SeveralFunctionCalls(j) =>
             LET fc == FirstFunctionCall(events[j].result)
             IN  /\ cursor >= j =>
                       /\ Len(input_list) >= j + 1
                       /\ input_list[j + 1]
                             = [type |-> "function_call", name |-> fc.name,
                                call_id |-> fc.name, arguments |-> fc.args]
                       /\ Len(input_list) >= j + 2 =>
                             /\ IsToolResult(input_list[j + 2])
                             /\ input_list[j + 2].call_id = fc.name
                 /\ \A i \in 1..Len(trace) :
                       trace[i].step = j + 1 =>
                          /\ trace[i].activity = "invoke_tool"
                          /\ trace[i].arg = [tool_name |-> fc.name, args |-> fc.args]

    /\ cursor <= Len(events) => ToolCallTurns = ResponsesWithCallTaken

\* the response [add({a: 1}), get_ip()] was taken: add was logged, dispatched
\* and answered
C15_Witness ==
    /\ Len(events) >= 2
    /\ SeveralFunctionCalls(1)
    /\ events[2].status = "completed"
    /\ cursor = 2
    /\ Len(input_list) = 3
    /\ input_list[2].name = "add"

(* C16.  The loop has no iteration bound of its own.  In a run in which no  *)
(* attempt of a step fails, every step issued completes, and which is       *)
(* restarted only finitely often, the run reaches Terminated if and only if *)
(* the completion service at some point returns a response with no          *)
(* function-call part; while every response carries a function call the run *)
(* is never Terminated nor Failed, it alternates between AwaitingCompletion  *)
(* and AwaitingTool, and it goes through every iteration explored here, up  *)
(* to MaxIterations, with nothing but that bound stopping it.               *)

NoFunctionCallReturned ==
    \E j \in 1..Len(events) :
        /\ events[j].activity = "create"
        /\ events[j].status = "completed"
        /\ ~HasFunctionCallPart(events[j].result)

\* MaxIterations completion calls and MaxIterations dispatches have completed
AllIterationsDone ==
    /\ Len(events) = 2 * MaxIterations
    /\ cursor = 2 * MaxIterations - 1
    /\ pc = "AwaitingTool"
    /\ Len(input_list) = 2 * MaxIterations

\* every step issued completes: again and again no step is outstanding
EveryStepCompletes == []<>(pending = NoActivity)

C16_TerminatesIffTextReturned ==
    /\ [](~NoFunctionCallReturned =>
             /\ pc \in {"NotStarted", "AwaitingCompletion", "AwaitingTool"}
             /\ pc = "AwaitingCompletion" => ~IsOdd(cursor)
             /\ pc = "AwaitingTool" => IsOdd(cursor))
    /\ (EveryStepCompletes /\ <>[](pc # "NotStarted")) =>
          /\ <>NoFunctionCallReturned => <>(pc = "Terminated")
          /\ <>(pc = "Terminated") => <>NoFunctionCallReturned
          /\ []~NoFunctionCallReturned => <>[]AllIterationsDone

\* every response carried a function call and the run is in its last
\* iteration explored, still waiting
C16_Witness ==
    /\ AllIterationsDone
    /\ NoStepFails
    /\ ~NoFunctionCallReturned

(* C17.  At every suspension point of run the last turn of the log is       *)
(* complete: while run waits for a completion call the log is the initial   *)
(* user message alone or ends with a tool call directly followed by its     *)
(* tool result (never with a tool call), and while it waits for a dispatch  *)
(* the last turn is the whole tool call being dispatched; a run restarted   *)
(* at either point holds, at each suspension point, the log its completed   *)
(* steps determine, and goes on from the step after the last recorded one.  *)

C17_LogConsistentAtSuspension ==
    /\ pc = "AwaitingCompletion" =>
          LET n == Len(input_list)
          IN  \/ input_list = InitialInputList(input)
              \/ /\ n >= 3
                 /\ IsToolCall(input_list[n - 1])
                 /\ input_list[n] = [type |-> "function_call_output",
                                     call_id |-> input_list[n - 1].call_id,
                                     output |-> events[cursor].result]
    /\ pc = "AwaitingTool" =>
          /\ Last(input_list) = [type |-> "function_call", name |-> item.name,
                                 call_id |-> item.call_id,
                                 arguments |-> item.arguments]
          /\ cursor = Len(events) =>
                pending = [activity |-> "invoke_tool",
                           tool_args |-> [tool_name |-> Last(input_list).name,
                                          args |-> Last(input_list).arguments],
                           attempt |-> pending.attempt]
    /\ (replayed /\ Awaiting) =>
          /\ input_list = LogAfter(cursor)
          /\ cursor = Len(events) => pending.activity = StepKind(cursor + 1)

\* a run restarted while the dispatch of add was outstanding is back at that
\* dispatch, with the tool call as the last turn
C17_Witness ==
    /\ replayed
    /\ pc = "AwaitingTool"
    /\ cursor = 1
    /\ Len(events) = 1
    /\ pending.activity = "invoke_tool"
    /\ Last(input_list).name = "add"

(* C18.  One execution of invoke_tool invokes the resolved callable at most *)
(* once, and it returns only after that invocation has completed, for plain *)
(* and for coroutine callables alike: what it returns is the value the      *)
(* callable produced.  A tool is invoked more than once for one step only   *)
(* when the scheduler attempted the step again after an invocation raised.  *)

ToolExecutions == {i \in 1..Len(trace) : trace[i].activity = "invoke_tool"}

InvocationsOfStep(s) ==
    {i \in ToolExecutions : trace[i].step = s /\ trace[i].called = 1}

C18_AtMostOneInvocationPerExecution ==
    /\ \A i \in ToolExecutions :
          /\ trace[i].called \in {0, 1}
          /\ trace[i].ok => trace[i].called = 1
    /\ \A i \in 1..Len(trace) : trace[i].activity = "create" => trace[i].called = 0
    /\ handlerCalls = Cardinality({i \in ToolExecutions : trace[i].called = 1})
    /\ \A j \in 1..Len(events) :
          (events[j].activity = "invoke_tool" /\ events[j].status = "completed")
          => /\ events[j].result \in ToolOutputs
             /\ \E i \in InvocationsOfStep(j) : trace[i].ok
    /\ \A i \in 1..Len(trace) : \A k \in (i + 1)..Len(trace) :
          (/\ trace[i].activity = "invoke_tool"
           /\ trace[k].activity = "invoke_tool"
           /\ trace[i].step = trace[k].step
           /\ trace[i].called = 1
           /\ trace[k].called = 1) => ~trace[i].ok

\* a plain callable (add) and a coroutine callable (get_ip) have each been
\* dispatched once and have returned their value
C18_Witness ==
    /\ Len(events) = 4
    /\ handlerCalls = 2
    /\ trace[2].arg.tool_name = "add"
    /\ trace[4].arg.tool_name = "get_ip"
    /\ trace[4].arg.tool_name \in CoroutineHandlers
    /\ trace[2].arg.tool_name \notin CoroutineHandlers
    /\ events[2].result \in ToolOutputs
    /\ events[4].result \in ToolOutputs

(* C19.  Every execution of a tool dispatch carries exactly the tool name   *)
(* and the arguments of the tool call turn appended just before it (the     *)
(* first function call of the preceding response); the turn appended after  *)
(* it holds the value that dispatch returned under the call identifier of   *)
(* that tool call; and a dispatch is pending only for the tool call that is *)
(* the last turn of the log.                                                *)

C19_DispatchMatchesLastToolCall ==
    /\ \A i \in ToolExecutions :
          LET s == trace[i].step
              fc == FirstFunctionCall(events[s - 1].result)
          IN  /\ s >= 2
              /\ trace[i].arg = [tool_name |-> fc.name, args |-> fc.args]
              /\ Len(input_list) >= s =>
                    /\ IsToolCall(input_list[s])
                    /\ trace[i].arg = [tool_name |-> input_list[s].name,
                                       args |-> input_list[s].arguments]
              /\ Len(input_list) >= s + 1 =>
                    input_list[s + 1] = [type |-> "function_call_output",
                                         call_id |-> input_list[s].call_id,
                                         output |-> events[s].result]
    /\ (pending.activity = "invoke_tool" /\ Len(input_list) > Len(events)) =>
          /\ Len(input_list) = Len(events) + 1
          /\ IsToolCall(Last(input_list))
          /\ pending.tool_args = [tool_name |-> Last(input_list).name,
                                  args |-> Last(input_list).arguments]
    /\ \A k \in 1..(Len(input_list) - 1) :
          IsToolCall(input_list[k]) =>
             /\ k <= Len(events)
             /\ events[k].activity = "invoke_tool"
             /\ events[k].status = "completed"

\* add({a: 1}) was dispatched with its arguments, its value was logged, and
\* the run went on to return
C19_Witness ==
    /\ pc = "Terminated"
    /\ Len(input_list) = 3
    /\ trace[2].arg = [tool_name |-> "add", args |-> [a |-> 1]]
    /\ input_list[3].output = events[2].result
    /\ input_list[3].call_id = "add"

(* C20.  The caller's query is never lost from the model's context: the log *)
(* of a run holds exactly one user message, its first turn, which is the    *)
(* query; the first completion request has an empty history and the query   *)
(* as its prompt; every later completion request has the query as the first *)
(* history entry, the most recent tool result as the last history entry and *)
(* the fixed continuation string as its prompt; so the contents sent to the *)
(* provider always begin with the query as a user message.                  *)

UserText(text) == [role |-> "user", parts |-> << [text |-> text] >>]

\* the request of step s, and the contents sent for it, keep the query
QueryInRequest(s, request, sent) ==
    /\ sent = request.history \o << UserText(request.prompt) >>
    /\ sent[1] = UserText(input)
    /\ IF s = 1
       THEN /\ request.history = << >>
            /\ request.prompt = input
       ELSE /\ request.history[1] = UserText(input)
            /\ Last(request.history)
                  = UserFunctionResponse(
                       FirstFunctionCall(events[s - 2].result).name,
                       events[s - 1].result)
            /\ request.prompt =
                  "Please continue and provide your response based on the tool results."

C20_QueryStaysInContext ==
    /\ pc # "NotStarted" =>
          /\ input_list[1] = [type |-> "message", role |-> "user",
                              content |-> input]
          /\ \A i \in 2..Len(input_list) : input_list[i].type # "message"
    /\ \A i \in 1..Len(trace) :
          trace[i].activity = "create" =>
             QueryInRequest(trace[i].step, trace[i].arg, trace[i].sent)
    /\ pending.activity = "create" =>
          QueryInRequest(Len(events) + 1, pending.request,
                         Contents(pending.request))

\* the second completion call of a run has been executed: the query, the tool
\* call, its result and the continuation prompt were sent
C20_Witness ==
    /\ Len(trace) >= 3
    /\ trace[3].activity = "create"
    /\ trace[3].step = 3
    /\ Len(trace[3].sent) = 4
    /\ trace[3].sent[1] = UserText(input)
    /\ input = "What is my IP?"

=============================================================================
